---- MODULE Spec2Model ----
(***************************************************************************)
(* Model of the Gemini upscaler batch runner: the orchestrator run() of    *)
(* src/main.js, the resume-state / output-naming / log helpers of          *)
(* src/file-manager.js and the polling wait primitive waitForAnyVisible of *)
(* gemini-handler.js.                                                      *)
(*                                                                         *)
(* File names and paths are sequences of one-character strings, so that    *)
(* path.extname, path.basename, path.join, toLowerCase and the default     *)
(* Array.prototype.sort are computed the way the code computes them.       *)
(***************************************************************************)
EXTENDS Integers, Sequences, FiniteSets, TLC

\* ------------------------------------------------------------------ bounds
\* Number of successive process invocations (runs of `npm start`) explored.
MaxRuns == 2
\* Largest value of config.retries explored (--retries).
MaxRetries == 2
\* Total number of adapter-operation faults the surface injects in one behaviour.
MaxFaults == 2

\* --------------------------------------------------------------- characters
a_jpg == <<"a", ".", "j", "p", "g">>
B_JPG == <<"B", ".", "J", "P", "G">>
n_txt == <<"n", ".", "t", "x", "t">>

\* Contents of the input directory that are explored.
InputDirs ==
  {{}, {n_txt}, {a_jpg}, {B_JPG, n_txt}, {a_jpg, B_JPG, n_txt}}

InputDirPath == <<"i", "n">>
OutputDirPath == <<"o", "u", "t">>

\* UTF-16 code unit of the characters the model uses (Array.prototype.sort
\* without a comparator orders strings by code unit).
CharCode(c) ==
  CASE c = "." -> 46
    [] c = "/" -> 47
    [] c = "2" -> 50
    [] c = "3" -> 51
    [] c = "4" -> 52
    [] c = "5" -> 53
    [] c = "B" -> 66
    [] c = "G" -> 71
    [] c = "J" -> 74
    [] c = "P" -> 80
    [] c = "_" -> 95
    [] c = "a" -> 97
    [] c = "g" -> 103
    [] c = "j" -> 106
    [] c = "n" -> 110
    [] c = "p" -> 112
    [] c = "t" -> 116
    [] c = "x" -> 120
    [] OTHER -> 0

\* String.prototype.toLowerCase on one character.
LowerChar(c) ==
  CASE c = "B" -> "b"
    [] c = "G" -> "g"
    [] c = "J" -> "j"
    [] c = "P" -> "p"
    [] OTHER -> c

ToLowerCase(s) == [i \in 1..Len(s) |-> LowerChar(s[i])]

\* Index of the last occurrence of character c in s, 0 when there is none.
LastIndexOf(s, c) ==
  LET hits == {i \in 1..Len(s) : s[i] = c}
  IN IF hits = {} THEN 0 ELSE CHOOSE i \in hits : \A j \in hits : j <= i

\* path.basename(p): the part after the last separator.
BaseName(p) == SubSeq(p, LastIndexOf(p, "/") + 1, Len(p))

\* path.extname(p): from the last "." of the basename, "" when the basename
\* has no "." or only a leading one.
ExtName(p) ==
  LET b == BaseName(p)
      i == LastIndexOf(b, ".")
  IN IF i <= 1 THEN <<>> ELSE SubSeq(b, i, Len(b))

\* path.basename(p, ext): the basename with a trailing ext removed.
BaseNameNoExt(p, ext) ==
  LET b == BaseName(p)
      n == Len(b) - Len(ext)
  IN IF n >= 1 /\ ext # <<>> /\ SubSeq(b, n + 1, Len(b)) = ext
       THEN SubSeq(b, 1, n)
       ELSE b

\* path.join(dir, name)
PathJoin(dir, name) == dir \o <<"/">> \o name

\* Strict order of two strings by code units.
RECURSIVE StrLess(_, _)
StrLess(s, t) ==
  IF t = <<>> THEN FALSE
  ELSE IF s = <<>> THEN TRUE
  ELSE IF CharCode(s[1]) # CharCode(t[1]) THEN CharCode(s[1]) < CharCode(t[1])
  ELSE StrLess(Tail(s), Tail(t))

\* Variant of SortNames that sorts in descending order.
RECURSIVE SortNamesDescending(_)
SortNamesDescending(S) ==
  IF S = {} THEN <<>>
  ELSE LET m == CHOOSE x \in S : \A y \in S \ {x} : StrLess(y, x)
       IN <<m>> \o SortNamesDescending(S \ {m})

\* Array.prototype.sort() of a set of distinct strings.
RECURSIVE SortNames(_)
SortNames(S) ==
  IF S = {} THEN <<>>
  ELSE LET m == CHOOSE x \in S : \A y \in S \ {x} : StrLess(x, y)
       IN <<m>> \o SortNames(S \ {m})

SUPPORTED_EXTS == {<<".", "j", "p", "g">>, <<".", "j", "p", "e", "g">>}

\* listImages(inputDir): filter by lower-cased extension, sort, join.
listImages(entries) ==
  LET names == SortNames({n \in entries : ToLowerCase(ExtName(n)) \in SUPPORTED_EXTS})
  IN [i \in 1..Len(names) |-> PathJoin(InputDirPath, names[i])]

\* Array.prototype.includes
Includes(seq, x) == \E i \in 1..Len(seq) : seq[i] = x

\* Number of occurrences of x in seq.
Count(seq, x) == Cardinality({i \in 1..Len(seq) : seq[i] = x})

Range(seq) == {seq[i] : i \in 1..Len(seq)}


\* ------------------------------------------------------- resume state store
EmptyState == [processed |-> <<>>, failed |-> <<>>]

\* The state file processing-state.json as the code sees it: absent (readFile
\* raises ENOENT), unparseable (JSON.parse raises), the JSON value null, or any
\* other JSON value, whose processed / failed members are arrays or not.
FileAbsent ==
  [kind |-> "absent", processedIsArray |-> FALSE, processed |-> <<>>,
   failedIsArray |-> FALSE, failed |-> <<>>]
FileUnparseable ==
  [kind |-> "unparseable", processedIsArray |-> FALSE, processed |-> <<>>,
   failedIsArray |-> FALSE, failed |-> <<>>]
FileNull ==
  [kind |-> "null", processedIsArray |-> FALSE, processed |-> <<>>,
   failedIsArray |-> FALSE, failed |-> <<>>]
\* e.g. {} or 5
FileNoArrays ==
  [kind |-> "value", processedIsArray |-> FALSE, processed |-> <<>>,
   failedIsArray |-> FALSE, failed |-> <<>>]

InitialStateFiles ==
  {FileAbsent, FileUnparseable, FileNull, FileNoArrays}

\* loadState raises: JSON.parse raises a SyntaxError, or reading a member of
\* null raises a TypeError; neither has code ENOENT, so the catch rethrows.
loadStateThrows(file) == file.kind \in {"unparseable", "null"}

\* loadState's return value when it returns.
loadState(file) ==
  IF file.kind = "absent"
    THEN EmptyState
    ELSE [processed |-> IF file.processedIsArray THEN file.processed ELSE <<>>,
          failed |-> IF file.failedIsArray THEN file.failed ELSE <<>>]

\* Variant of saveState that writes the processed list only.
saveStateProcessedOnly(st) ==
  [kind |-> "value", processedIsArray |-> TRUE, processed |-> st.processed,
   failedIsArray |-> TRUE, failed |-> <<>>]

\* saveState: the file holds JSON.stringify(state).
saveState(st) ==
  [kind |-> "value", processedIsArray |-> TRUE, processed |-> st.processed,
   failedIsArray |-> TRUE, failed |-> st.failed]

\* ------------------------------------------------------------ output naming
Digit(d) == CASE d = 0 -> "0" [] d = 1 -> "1" [] d = 2 -> "2" [] d = 3 -> "3"
              [] d = 4 -> "4" [] d = 5 -> "5" [] d = 6 -> "6" [] d = 7 -> "7"
              [] d = 8 -> "8" [] OTHER -> "9"

\* Template-literal formatting of a non-negative integer.
RECURSIVE NumToStr(_)
NumToStr(k) == IF k < 10 THEN <<Digit(k)>> ELSE NumToStr(k \div 10) \o <<Digit(k % 10)>>

UpscaledSuffix == <<"_", "u", "p", "s", "c", "a", "l", "e", "d">>

\* The candidate buildOutputPath probes: counter = 1 stands for the first
\* candidate, without a number; counter >= 2 for `${base}_upscaled_${counter}${ext}`.
OutputCandidate(inputPath, counter) ==
  LET ext == ExtName(inputPath)
      base == BaseNameNoExt(inputPath, ext)
  IN PathJoin(OutputDirPath,
       IF counter = 1
         THEN base \o UpscaledSuffix \o ext
         ELSE base \o UpscaledSuffix \o <<"_">> \o NumToStr(counter) \o ext)

\* The while loop of buildOutputPath from a given counter on: fs.access
\* succeeds on an existing path, raises ENOENT otherwise.
RECURSIVE ProbeFrom(_, _, _)
ProbeFrom(inputPath, counter, existing) ==
  IF OutputCandidate(inputPath, counter) \in existing
    THEN ProbeFrom(inputPath, counter + 1, existing)
    ELSE OutputCandidate(inputPath, counter)

\* Variant of buildOutputPath that returns the first candidate unprobed.
buildOutputPathUnprobed(inputPath, existing) == OutputCandidate(inputPath, 1)

buildOutputPath(inputPath, existing) == ProbeFrom(inputPath, 1, existing)

\* Contents of the output directory before the first run that are explored:
\* nothing, or a numbered output left by an earlier batch.
InitialOutputDirs ==
  {<<>>, [p \in {OutputCandidate(PathJoin(InputDirPath, a_jpg), 2)} |-> "data"]}

\* ---------------------------------------------------------------- run log
\* One line of processing.log (the bracketed timestamp prefix is left out).
LogLine(kind, name, att, step, out, ok, bad) ==
  [kind |-> kind, name |-> name, attempt |-> att, step |-> step, out |-> out,
   success |-> ok, failed |-> bad]

SuccessLine(name, out) == LogLine("SUCCESS", name, 0, "", out, 0, 0)
\* Variant of ErrorLine that leaves the step at its initial label.
ErrorLineInit(name, att, step) == LogLine("ERROR", name, att, "init", <<>>, 0, 0)

ErrorLine(name, att, step) == LogLine("ERROR", name, att, step, <<>>, 0, 0)
SummaryLine(ok, bad) == LogLine("SUMMARY", <<>>, 0, "", <<>>, ok, bad)

\* appendLog: fs.appendFile adds the line at the end of the file.
appendLog(log, line) == Append(log, line)


\* ----------------------------------------------------------- wait primitive
\* const DEFAULT_POLL_MS = 1000
DEFAULT_POLL_MS == 1000

\* Resolution of the wall clock of the model, in milliseconds.
Tick == 250
\* Largest timeout and largest instant a candidate becomes usable, in ticks.
MaxTimeoutTicks == 9

Never == 0 - 1

\* A candidate of the list: the instant (relative to time 0) from which its
\* element is visible, Never for none; throws: locator.first().isVisible()
\* raises whenever it is called.
Candidate(usableAt, throws) == [usableAt |-> usableAt, throws |-> throws]

CandidateKinds ==
  {Candidate(Never, FALSE), Candidate(0, TRUE)}
    \cup {Candidate(k * Tick, FALSE) : k \in 0..MaxTimeoutTicks}

\* Time one isVisible round trip to the browser can take.
ProbeCosts == {0, Tick}
\* How much later than asked a setTimeout callback can run.
TimerLate == {0, Tick}

\* Variant of isVisible without the try/catch around the probe's answer.
isVisibleIgnoringFaults(cand, t) == cand.usableAt # Never /\ cand.usableAt <= t

\* isVisible(locator) sampled at instant t: a raised error counts as false.
isVisible(cand, t) ==
  IF cand.throws THEN FALSE ELSE cand.usableAt # Never /\ cand.usableAt <= t

\* Variant of loopContinues with an inclusive comparison.
loopContinuesInclusive(now, start, timeoutMs) == now - start <= timeoutMs

\* The loop condition of waitForAnyVisible: Date.now() - start < timeoutMs
loopContinues(now, start, timeoutMs) == now - start < timeoutMs

\* Variant of returnedHandle that returns the head of the list.
returnedHandleFirst(i) == 1

\* The handle waitForAnyVisible returns when the probe of candidate i is true.
returnedHandle(i) == i

\* ------------------------------------------------------------ orchestrator
VARIABLES
  inputDir,      \* entries of the input directory
  limit,         \* config.limit; 0 stands for undefined (no --limit)
  retries,       \* config.retries
  stateFile,     \* processing-state.json in the output directory
  outputFiles,   \* the other files of the output directory: path -> "empty" | "data"
  logFile,       \* processing.log, a sequence of lines
  pc,            \* where run() is: "idle", "launch", "login", "loop", "stage", "done",
                 \* "fatal" (run() rejected), "killed" (the process was terminated)
  runNo,         \* number of process invocations started so far
  state,         \* run()'s working copy of the resume state
  limited,       \* run()'s work list
  idx,           \* position of the for loop in limited
  attempt,       \* attempt counter of the current item
  currentStep,   \* label of the stage in progress
  outputPath,    \* destination computed for the current attempt's download
  successCount,
  failureCount,
  exitCode,      \* process.exitCode
  fatalAt,       \* the call whose error rejected run(), "" when none
  nothingToDo,   \* 'No images to process.' was printed by this run
  calls,         \* this run's calls into the browser / adapter, in order
  faulted,       \* this run's operations that raised: <<item, attempt, step>>
  downloaded,    \* this run's items whose downloadImage returned
  recordAtStart, \* the state file as it was when this run started
  logAtStart,    \* length of the log when this run started
  faults,        \* faults injected so far
  lastSleep,     \* duration of the backoff sleep of the last step, 0 when none
  \* one call of waitForAnyVisible
  wCands,        \* locatorFactories: a sequence of candidates
  wTimeout,      \* timeoutMs
  wNow,          \* Date.now()
  wStart,        \* start
  wPc,           \* "off", "head", "probe", "sleep", "returned", "timedout"
  wI,            \* position of the for loop in wCands
  wResult,       \* the returned handle, 0 when none
  wPassStart,    \* instant the loop condition last held
  wProbes,       \* the probes made: <<candidate, instant sampled, result>>
  \* one call of selectFastMode
  mVariant,      \* which copy of selectFastMode the handler holds
  mPc,           \* "off", "click", "wait", "returned", "raised"
  mButton,       \* position of the visible mode-button candidate found, 0 for none
  mClicked,      \* the mode button was clicked
  mConfirmed,    \* fastSelected in the catch: "yes", "no", "unknown" before
  \* one call of uploadImage
  uPc,           \* "off", "shadow", "hidden", "button", "menu", "force", "returned", "raised"
  uTried,        \* the mechanisms given the file so far: <<mechanism, accepted>>
  \* one call of waitForProcessingComplete
  pPc,           \* "off", "indicator", "poll", "returned", "raised"
  pStart,        \* instant of the call
  pShown         \* the loading indicator: "unknown", "never", "hid", "stayed"

runVars ==
  <<inputDir, limit, retries, stateFile, outputFiles, logFile, pc, runNo, state,
    limited, idx, attempt, currentStep, outputPath, successCount, failureCount,
    exitCode, fatalAt, nothingToDo, calls, faulted, downloaded, recordAtStart, logAtStart,
    faults, lastSleep>>

waitVars ==
  <<wCands, wTimeout, wNow, wStart, wPc, wI, wResult, wPassStart, wProbes>>

modeVars == <<mVariant, mPc, mButton, mClicked, mConfirmed>>

uploadVars == <<uPc, uTried>>

procVars == <<pPc, pStart, pShown>>

\* The state of the adapter calls that are modelled step by step.
callVars == <<modeVars, uploadVars, procVars>>

vars == <<runVars, waitVars, callVars>>

\* Variant of StageOrder that enters the prompt before uploading.
StageOrderPromptFirst ==
  <<"ensure-ready", "select-fast", "prompt", "upload", "send", "processing", "download">>

StageOrder ==
  <<"ensure-ready", "select-fast", "upload", "prompt", "send", "processing", "download">>

StageIndex(step) == CHOOSE i \in 1..Len(StageOrder) : StageOrder[i] = step

Call(op, item) == [op |-> op, item |-> item]

NoItem == <<>>

\* Variant of attemptOpens that checks the login before every attempt.
attemptOpensWithLogin(item) == <<Call("ensureLoggedIn", NoItem), Call("ensure-ready", item)>>

\* The first adapter call of an attempt: currentStep = 'ensure-ready' and
\* handler.ensureReadyForInput().
attemptOpens(item) == <<Call("ensure-ready", item)>>

\* Variant of pendingImages that also leaves out the identifiers in failed.
pendingImagesSkipFailed(allImages, st) ==
  SelectSeq(allImages, LAMBDA file : ~Includes(st.processed, file) /\ ~Includes(st.failed, file))

\* Variant of pendingImages that consults the failed list instead of processed.
pendingImagesByFailed(allImages, st) ==
  SelectSeq(allImages, LAMBDA file : ~Includes(st.failed, file))

\* allImages.filter((file) => !state.processed.includes(file))
pendingImages(allImages, st) ==
  SelectSeq(allImages, LAMBDA file : ~Includes(st.processed, file))

\* config.limit ? pending.slice(0, config.limit) : pending
limitedImages(pending, lim) ==
  IF lim # 0
    THEN SubSeq(pending, 1, IF lim < Len(pending) THEN lim ELSE Len(pending))
    ELSE pending

\* state.processed.push(imagePath)
pushProcessed(st, imagePath) == [st EXCEPT !.processed = Append(@, imagePath)]

\* state.failed.push(imagePath)
pushFailed(st, imagePath) == [st EXCEPT !.failed = Append(@, imagePath)]

\* Variant of workList that cuts the enumeration to the limit before filtering.
workListLimitFirst(allImages, st, lim) ==
  pendingImages(limitedImages(allImages, lim), st)

\* pending = allImages.filter(...); limited = pending.slice(0, config.limit)
workList(allImages, st, lim) == limitedImages(pendingImages(allImages, st), lim)

\* Variant of workListEmpty that never reports an empty list.
workListEmptyNever(lim) == FALSE

\* !limited.length
workListEmpty(lim) == Len(lim) = 0

\* Variant of attemptsExhausted that gives up one attempt early.
attemptsExhaustedEarly(att, maxAttempts) == att >= maxAttempts - 1

\* Variant of attemptsExhausted with a strict comparison.
attemptsExhaustedStrict(att, maxAttempts) == att > maxAttempts

\* attempt >= config.retries
attemptsExhausted(att, maxAttempts) == att >= maxAttempts

\* Variant of whileContinues that allows one attempt more.
whileContinuesInclusive(att, maxAttempts, succeeded) == att <= maxAttempts /\ ~succeeded

\* Variant of whileContinues that retries until the item succeeds.
whileContinuesUntilSuccess(att, maxAttempts, succeeded) == ~succeeded

\* The while condition: attempt < config.retries && !succeeded
whileContinues(att, maxAttempts, succeeded) == att < maxAttempts /\ ~succeeded

\* Variant of backoffMs whose exponent is the attempt number.
backoffMsLate(att) == 30000 * (2 ^ att)

\* 30000 * Math.pow(2, attempt - 1)
backoffMs(att) == 30000 * (2 ^ (att - 1))

\* What a download can write to the destination.
PayloadSizes == {"empty", "data"}

\* Variant of downloadImageThrows that accepts any payload.
downloadImageThrowsNever(size) == FALSE

\* if (!stats.size) { throw new Error('Downloaded file is empty: ...') }
downloadImageThrows(size) == size = "empty"

\* download.saveAs(outputPath): creates or replaces the file.
saveAs(files, path, size) ==
  [p \in DOMAIN files \cup {path} |-> IF p = path THEN size ELSE files[p]]

\* The copies of selectFastMode in the repository: the one of the handler
\* that has captureDebug, and the one the two other handler files share.
HandlerVariants == {"current", "earlier"}

\* No call of selectFastMode is in progress.
ModeQuiet ==
  /\ mVariant = "current"
  /\ mPc = "off"
  /\ mButton = 0
  /\ mClicked = FALSE
  /\ mConfirmed = "unknown"

\* No call of uploadImage is in progress.
UploadQuiet ==
  /\ uPc = "off"
  /\ uTried = <<>>

\* No call of waitForProcessingComplete is in progress.
ProcQuiet ==
  /\ pPc = "off"
  /\ pStart = 0
  /\ pShown = "unknown"

\* No call of waitForAnyVisible is in progress.
WaitQuiet ==
  /\ wCands = <<>>
  /\ wTimeout = 0
  /\ wNow = 0
  /\ wStart = 0
  /\ wPc = "off"
  /\ wI = 0
  /\ wResult = 0
  /\ wPassStart = 0
  /\ wProbes = <<>>

RunInit(dirs, limits, retrySet, files, outs) ==
  /\ inputDir \in dirs
  /\ limit \in limits
  /\ retries \in retrySet
  /\ stateFile \in files
  /\ outputFiles \in outs
  /\ logFile = <<>>
  /\ pc = "idle"
  /\ runNo = 0
  /\ state = EmptyState
  /\ limited = <<>>
  /\ idx = 1
  /\ attempt = 0
  /\ currentStep = "init"
  /\ outputPath = <<>>
  /\ successCount = 0
  /\ failureCount = 0
  /\ exitCode = 0
  /\ fatalAt = ""
  /\ nothingToDo = FALSE
  /\ calls = <<>>
  /\ faulted = <<>>
  /\ downloaded = {}
  /\ recordAtStart = stateFile
  /\ logAtStart = 0
  /\ faults = 0
  /\ lastSleep = 0

Init ==
  /\ RunInit(InputDirs, {0, 1}, 1..MaxRetries, InitialStateFiles, InitialOutputDirs)
  /\ WaitQuiet
  /\ ModeQuiet
  /\ UploadQuiet
  /\ ProcQuiet

\* A process invocation starts: run() up to the empty-work-list check.
\* loadState raising rejects run(), and the catch of line 162 sets exitCode.
StartRun ==
  /\ UNCHANGED <<waitVars, callVars>>
  /\ pc \in {"idle", "done", "fatal", "killed"}
  /\ runNo < MaxRuns
  /\ runNo' = runNo + 1
  /\ recordAtStart' = stateFile
  /\ logAtStart' = Len(logFile)
  /\ calls' = <<>>
  /\ faulted' = <<>>
  /\ downloaded' = {}
  /\ idx' = 1
  /\ attempt' = 0
  /\ currentStep' = "init"
  /\ outputPath' = <<>>
  /\ successCount' = 0
  /\ failureCount' = 0
  /\ lastSleep' = 0
  /\ IF loadStateThrows(stateFile)
       THEN /\ pc' = "fatal"
            /\ exitCode' = 1
            /\ fatalAt' = "loadState"
            /\ nothingToDo' = FALSE
            /\ state' = EmptyState
            /\ limited' = <<>>
       ELSE /\ state' = loadState(stateFile)
            /\ limited' = workList(listImages(inputDir), state', limit)
            /\ exitCode' = 0
            /\ fatalAt' = ""
            /\ nothingToDo' = workListEmpty(limited')
            /\ pc' = IF workListEmpty(limited') THEN "done" ELSE "launch"
  /\ UNCHANGED <<inputDir, limit, retries, stateFile, outputFiles, logFile, faults>>

\* chromium.launchPersistentContext, context.newPage, page.goto; then
\* handler.ensureLoggedIn() is called.
Launch ==
  /\ UNCHANGED <<waitVars, callVars>>
  /\ pc = "launch"
  /\ calls' = calls \o <<Call("launchPersistentContext", NoItem), Call("ensureLoggedIn", NoItem)>>
  /\ pc' = "login"
  /\ UNCHANGED <<inputDir, limit, retries, stateFile, outputFiles, logFile, runNo, state,
                 limited, idx, attempt, currentStep, outputPath, successCount,
                 failureCount, exitCode, fatalAt, nothingToDo, faulted, downloaded,
                 recordAtStart, logAtStart, faults, lastSleep>>

\* ensureLoggedIn returns.
LoginReturns ==
  /\ UNCHANGED <<waitVars, callVars>>
  /\ pc = "login"
  /\ pc' = "loop"
  /\ UNCHANGED <<inputDir, limit, retries, stateFile, outputFiles, logFile, runNo, state,
                 limited, idx, attempt, currentStep, outputPath, successCount,
                 failureCount, exitCode, fatalAt, nothingToDo, calls, faulted, downloaded,
                 recordAtStart, logAtStart, faults, lastSleep>>

\* ensureLoggedIn raises its timeout: run() rejects, exitCode = 1.
LoginTimesOut ==
  /\ UNCHANGED <<waitVars, callVars>>
  /\ pc = "login"
  /\ pc' = "fatal"
  /\ exitCode' = 1
  /\ fatalAt' = "ensureLoggedIn"
  /\ UNCHANGED <<inputDir, limit, retries, stateFile, outputFiles, logFile, runNo, state,
                 limited, idx, attempt, currentStep, outputPath, successCount,
                 failureCount, nothingToDo, calls, faulted, downloaded,
                 recordAtStart, logAtStart, faults, lastSleep>>

\* The body of the while loop is entered for limited[idx]: attempt += 1 and
\* the first stage, ensureReadyForInput, is called.
BeginAttempt ==
  /\ UNCHANGED <<waitVars, callVars>>
  /\ pc = "loop"
  /\ idx <= Len(limited)
  /\ whileContinues(attempt, retries, FALSE)
  /\ attempt' = attempt + 1
  /\ currentStep' = "ensure-ready"
  /\ calls' = calls \o attemptOpens(limited[idx])
  /\ pc' = "stage"
  /\ lastSleep' = 0
  /\ UNCHANGED <<inputDir, limit, retries, stateFile, outputFiles, logFile, runNo, state,
                 limited, idx, outputPath, successCount, failureCount, exitCode, fatalAt,
                 nothingToDo, faulted, downloaded, recordAtStart, logAtStart, faults>>

\* A stage before the download returns: the next stage is called; before
\* downloadImage is called, buildOutputPath computes its destination.
StageReturns ==
  /\ UNCHANGED <<waitVars, callVars>>
  /\ pc = "stage"
  /\ currentStep # "download"
  /\ LET next == StageOrder[StageIndex(currentStep) + 1]
     IN /\ currentStep' = next
        /\ calls' = Append(calls, Call(next, limited[idx]))
        /\ outputPath' = IF next = "download"
                           THEN buildOutputPath(limited[idx], DOMAIN outputFiles)
                           ELSE outputPath
  /\ UNCHANGED <<inputDir, limit, retries, stateFile, outputFiles, logFile, pc, runNo,
                 state, limited, idx, attempt, successCount, failureCount, exitCode, fatalAt,
                 nothingToDo, faulted, downloaded, recordAtStart, logAtStart, faults,
                 lastSleep>>

\* The catch block of the attempt, for a fault raised in currentStep, and the
\* while condition evaluated after it: the for loop moves on when it is false.
CatchBlockAfter(st, file) ==
  /\ logFile' = appendLog(logFile, ErrorLine(BaseName(limited[idx]), attempt, currentStep))
  /\ faulted' = Append(faulted, <<limited[idx], attempt, currentStep>>)
  /\ faults' = faults + 1
  /\ pc' = "loop"
  /\ IF attemptsExhausted(attempt, retries)
       THEN /\ state' = pushFailed(st, limited[idx])
            /\ stateFile' = saveState(state')
            /\ failureCount' = failureCount + 1
            /\ lastSleep' = 0
       ELSE /\ lastSleep' = backoffMs(attempt)
            /\ state' = st
            /\ stateFile' = file
            /\ UNCHANGED failureCount
  /\ IF whileContinues(attempt, retries, FALSE)
       THEN UNCHANGED <<idx, attempt>>
       ELSE /\ idx' = idx + 1
            /\ attempt' = 0
  /\ UNCHANGED <<inputDir, limit, retries, runNo, limited, currentStep, outputPath,
                 successCount, exitCode, fatalAt, nothingToDo, calls, recordAtStart,
                 logAtStart>>

\* The catch block entered from a stage operation that raised.
CatchBlock ==
  /\ CatchBlockAfter(state, stateFile)
  /\ UNCHANGED downloaded

\* The operation of the current stage raises before any file is written.
StageFaults ==
  /\ UNCHANGED <<waitVars, callVars>>
  /\ pc = "stage"
  /\ faults < MaxFaults
  /\ CatchBlock
  /\ UNCHANGED outputFiles

\* downloadImage writes a zero-byte file and raises 'Downloaded file is empty'.
DownloadEmpty ==
  /\ UNCHANGED <<waitVars, callVars>>
  /\ pc = "stage"
  /\ currentStep = "download"
  /\ faults < MaxFaults
  /\ downloadImageThrows("empty")
  /\ outputFiles' = saveAs(outputFiles, outputPath, "empty")
  /\ CatchBlock

\* downloadImage writes a non-empty file and returns: the rest of the try
\* block, which sets succeeded, so that the while loop ends.
DownloadReturns ==
  /\ UNCHANGED <<waitVars, callVars>>
  /\ pc = "stage"
  /\ currentStep = "download"
  /\ \E size \in PayloadSizes :
       /\ ~downloadImageThrows(size)
       /\ outputFiles' = saveAs(outputFiles, outputPath, size)
  /\ downloaded' = downloaded \cup {limited[idx]}
  /\ state' = pushProcessed(state, limited[idx])
  /\ stateFile' = saveState(state')
  /\ logFile' = appendLog(logFile, SuccessLine(BaseName(limited[idx]), outputPath))
  /\ successCount' = successCount + 1
  /\ IF whileContinues(attempt, retries, TRUE)
       THEN UNCHANGED <<idx, attempt>>
       ELSE /\ idx' = idx + 1
            /\ attempt' = 0
  /\ pc' = "loop"
  /\ lastSleep' = 0
  /\ UNCHANGED <<inputDir, limit, retries, runNo, limited, currentStep, outputPath,
                 failureCount, exitCode, fatalAt, nothingToDo, calls, faulted, recordAtStart,
                 logAtStart, faults>>

\* The for loop is over: the summary line, context.close(), run() resolves.
Finish ==
  /\ UNCHANGED <<waitVars, callVars>>
  /\ pc = "loop"
  /\ idx > Len(limited)
  /\ logFile' = appendLog(logFile, SummaryLine(successCount, failureCount))
  /\ calls' = Append(calls, Call("close", NoItem))
  /\ pc' = "done"
  /\ lastSleep' = 0
  /\ UNCHANGED <<inputDir, limit, retries, stateFile, outputFiles, runNo, state, limited,
                 idx, attempt, currentStep, outputPath, successCount, failureCount,
                 exitCode, fatalAt, nothingToDo, faulted, downloaded, recordAtStart, logAtStart,
                 faults>>

\* The process is terminated from outside while run() is suspended at one of
\* its awaits: nothing more is executed, the files stay as they are.
Kill ==
  /\ UNCHANGED <<waitVars, callVars>>
  /\ pc \in {"launch", "login", "loop", "stage"}
  /\ pc' = "killed"
  /\ UNCHANGED <<inputDir, limit, retries, stateFile, outputFiles, logFile, runNo, state,
                 limited, idx, attempt, currentStep, outputPath, successCount,
                 failureCount, exitCode, fatalAt, nothingToDo, calls, faulted, downloaded,
                 recordAtStart, logAtStart, faults, lastSleep>>

Next ==
  \/ StartRun
  \/ Launch
  \/ LoginReturns
  \/ LoginTimesOut
  \/ BeginAttempt
  \/ StageReturns
  \/ StageFaults
  \/ DownloadEmpty
  \/ DownloadReturns
  \/ Finish

Spec == Init /\ [][Next]_vars

\* Runs that may be terminated: a batch over the three-entry input directory,
\* started with no state file, every run of which can be killed at any await.
InitCrash ==
  /\ RunInit({{a_jpg, B_JPG, n_txt}}, {0}, 1..MaxRetries, {FileAbsent}, {<<>>})
  /\ WaitQuiet
  /\ ModeQuiet
  /\ UploadQuiet
  /\ ProcQuiet

NextCrash ==
  \/ Next
  \/ Kill

SpecCrash == InitCrash /\ [][NextCrash]_vars

\* saveState raises after state.processed.push: the download is on disk and
\* the item is in the working copy, the state file is as it was, and the
\* catch block takes over with currentStep still 'download'.
SaveStateRaises ==
  /\ UNCHANGED <<waitVars, callVars>>
  /\ pc = "stage"
  /\ currentStep = "download"
  /\ faults < MaxFaults
  /\ outputFiles' = saveAs(outputFiles, outputPath, "data")
  /\ downloaded' = downloaded \cup {limited[idx]}
  /\ CatchBlockAfter(pushProcessed(state, limited[idx]), stateFile)

\* appendLog raises for the SUCCESS line: the state file already lists the
\* item, and the catch block takes over.
SuccessLogRaises ==
  /\ UNCHANGED <<waitVars, callVars>>
  /\ pc = "stage"
  /\ currentStep = "download"
  /\ faults < MaxFaults
  /\ outputFiles' = saveAs(outputFiles, outputPath, "data")
  /\ downloaded' = downloaded \cup {limited[idx]}
  /\ CatchBlockAfter(pushProcessed(state, limited[idx]),
                     saveState(pushProcessed(state, limited[idx])))

\* Runs in which a write of the state file or of the log can fail once in a
\* while (the writes of the catch block itself succeed).
NextFaults ==
  \/ Next
  \/ SaveStateRaises
  \/ SuccessLogRaises

SpecFaults == InitCrash /\ [][NextFaults]_vars

\* The steps run() takes by itself once it was started: every awaited call
\* returns or raises, and the code between two awaits runs.
RunProgress ==
  \/ Launch
  \/ LoginReturns
  \/ LoginTimesOut
  \/ BeginAttempt
  \/ StageReturns
  \/ StageFaults
  \/ DownloadEmpty
  \/ DownloadReturns
  \/ Finish

\* Runs in which no awaited call hangs: batches over the three-entry input
\* directory, started with no state file.
SpecLive == InitCrash /\ [][Next]_vars /\ WF_vars(RunProgress)


\* ------------------------------------------------- waitForAnyVisible, timed
\* The call: const start = Date.now()
WaitCall ==
  /\ wPc = "off"
  /\ wCands # <<>>
  /\ wStart' = wNow
  /\ wPc' = "head"
  /\ UNCHANGED <<wCands, wTimeout, wNow, wI, wResult, wPassStart, wProbes>>
  /\ UNCHANGED <<runVars, callVars>>

\* The while condition is evaluated: a polling pass starts, or the timeout
\* error is raised.
WaitHead ==
  /\ wPc = "head"
  /\ IF loopContinues(wNow, wStart, wTimeout)
       THEN /\ wPc' = "probe"
            /\ wI' = 1
            /\ wPassStart' = wNow
       ELSE /\ wPc' = "timedout"
            /\ UNCHANGED <<wI, wPassStart>>
  /\ UNCHANGED <<wCands, wTimeout, wNow, wStart, wResult, wProbes>>
  /\ UNCHANGED <<runVars, callVars>>

\* One iteration of the for loop: the candidate is probed, which takes some
\* time, and is returned when the probe says visible.
WaitProbe ==
  /\ wPc = "probe"
  /\ \E cost \in ProbeCosts :
       \E at \in {wNow, wNow + cost} :
         LET seen == isVisible(wCands[wI], at)
         IN /\ wNow' = wNow + cost
            /\ wProbes' = Append(wProbes, <<wI, at, seen>>)
            /\ IF seen
                 THEN /\ wResult' = returnedHandle(wI)
                      /\ wPc' = "returned"
                      /\ wI' = wI
                 ELSE /\ wResult' = wResult
                      /\ wPc' = IF wI < Len(wCands) THEN "probe" ELSE "sleep"
                      /\ wI' = IF wI < Len(wCands) THEN wI + 1 ELSE wI
  /\ UNCHANGED <<wCands, wTimeout, wStart, wPassStart>>
  /\ UNCHANGED <<runVars, callVars>>

\* await delay(DEFAULT_POLL_MS)
WaitSleep ==
  /\ wPc = "sleep"
  /\ \E late \in TimerLate : wNow' = wNow + DEFAULT_POLL_MS + late
  /\ wPc' = "head"
  /\ UNCHANGED <<wCands, wTimeout, wStart, wI, wResult, wPassStart, wProbes>>
  /\ UNCHANGED <<runVars, callVars>>

\* The run-time state while only the wait primitive is exercised.
RunQuiet == RunInit({{}}, {0}, {1}, {FileAbsent}, {<<>>})

InitWait ==
  /\ RunQuiet
  /\ ModeQuiet
  /\ UploadQuiet
  /\ ProcQuiet
  /\ wCands \in [1..2 -> CandidateKinds]
  /\ wTimeout \in {k * Tick : k \in 0..MaxTimeoutTicks}
  /\ wNow \in {0, Tick}
  /\ wStart = 0
  /\ wPc = "off"
  /\ wI = 0
  /\ wResult = 0
  /\ wPassStart = 0
  /\ wProbes = <<>>

NextWait ==
  \/ WaitCall
  \/ WaitHead
  \/ WaitProbe
  \/ WaitSleep

SpecWait == InitWait /\ [][NextWait]_vars


\* ------------------------------------------------------------ selectFastMode
\* The timeout of waitForAnyVisible(this.page, fastOptionCandidates, 5000)
FAST_OPTION_TIMEOUT_MS == 5000

\* Length of modeButtonCandidates.
ModeButtonCount == 4

\* The scan of modeButtonCandidates: the first candidate that is visible.
firstVisible(vis) == IF vis = {} THEN 0 ELSE CHOOSE i \in vis : \A j \in vis : i <= j

\* if (!modeButton) { this.log('Mode selector not found; ...'); return; }
\* Only the current copy has this return.
skipsWithoutSelector(variant) == variant = "current"

\* catch (err) { ...; if (!fastSelected) { throw err; } } in the earlier copy;
\* the current copy logs 'Fast option not found after opening mode menu.'
raisesUnconfirmed(variant, fastSelected) == variant = "earlier" /\ ~fastSelected

\* The Fast option on the page: the three locators of fastOptionCandidates are
\* one candidate, which shows up early, after the timeout, or never.
FastOptionKinds ==
  CandidateKinds \cup {Candidate(FAST_OPTION_TIMEOUT_MS + Tick, FALSE)}

\* The scan of the mode-button candidates. Without a visible one the current
\* copy returns; the earlier copy goes on to wait for the Fast option.
ModeScan ==
  /\ mPc = "off"
  /\ \E vis \in SUBSET (1..ModeButtonCount) :
       /\ mButton' = firstVisible(vis)
       /\ mPc' = IF firstVisible(vis) # 0 THEN "click"
                 ELSE IF skipsWithoutSelector(mVariant) THEN "returned" ELSE "wait"
  /\ UNCHANGED <<mVariant, mClicked, mConfirmed>>
  /\ UNCHANGED <<runVars, waitVars, uploadVars, procVars>>

\* await modeButton.click(): outside the try block, so its error leaves
\* selectFastMode.
ModeClick ==
  /\ mPc = "click"
  /\ \E ok \in BOOLEAN :
       /\ mClicked' = ok
       /\ mPc' = IF ok THEN "wait" ELSE "raised"
  /\ UNCHANGED <<mVariant, mButton, mConfirmed>>
  /\ UNCHANGED <<runVars, waitVars, uploadVars, procVars>>

\* waitForAnyVisible(this.page, fastOptionCandidates, 5000) runs.
ModeWaits ==
  /\ mPc = "wait"
  /\ NextWait

\* The catch block: fastSelected = _checkAnyVisible([the Fast button]).
ModeCatchBlock ==
  \E fastSelected \in BOOLEAN :
    /\ mConfirmed' = IF fastSelected THEN "yes" ELSE "no"
    /\ mPc' = IF raisesUnconfirmed(mVariant, fastSelected) THEN "raised" ELSE "returned"

\* The Fast option was returned: await option.click(), whose error is caught.
ModeOptionClick ==
  /\ mPc = "wait"
  /\ wPc = "returned"
  /\ \/ /\ mPc' = "returned"
        /\ UNCHANGED mConfirmed
     \/ ModeCatchBlock
  /\ UNCHANGED <<mVariant, mButton, mClicked>>
  /\ UNCHANGED <<runVars, waitVars, uploadVars, procVars>>

\* waitForAnyVisible raised its timeout error.
ModeTimedOut ==
  /\ mPc = "wait"
  /\ wPc = "timedout"
  /\ ModeCatchBlock
  /\ UNCHANGED <<mVariant, mButton, mClicked>>
  /\ UNCHANGED <<runVars, waitVars, uploadVars, procVars>>

InitMode ==
  /\ RunQuiet
  /\ wCands \in [1..1 -> FastOptionKinds]
  /\ wTimeout = FAST_OPTION_TIMEOUT_MS
  /\ wNow = 0
  /\ wStart = 0
  /\ wPc = "off"
  /\ wI = 0
  /\ wResult = 0
  /\ wPassStart = 0
  /\ wProbes = <<>>
  /\ mVariant \in HandlerVariants
  /\ mPc = "off"
  /\ mButton = 0
  /\ mClicked = FALSE
  /\ mConfirmed = "unknown"
  /\ UploadQuiet
  /\ ProcQuiet

NextMode ==
  \/ ModeScan
  \/ ModeClick
  \/ ModeWaits
  \/ ModeOptionClick
  \/ ModeTimedOut

SpecMode == InitMode /\ [][NextMode]_vars


\* --------------------------------------------------------------- uploadImage
\* The timeout of waitForAnyVisible(this.page, uploadButtonCandidates, 5000)
UPLOAD_BUTTON_TIMEOUT_MS == 5000

\* What a mechanism that is on the page and is given the file leads to:
\* setInputFiles of the direct and of the shadow input is awaited outside any
\* try block, so its error leaves uploadImage; only the file chooser of the
\* hidden button is inside a try block, whose catch goes on to the upload button.
afterMechanism(mechanism, accepted) ==
  IF accepted THEN "returned"
  ELSE IF mechanism = "hidden-chooser" THEN "button" ELSE "raised"

\* input[type="file"]: if (await input.count()) { setInputFiles; return }
UploadDirect ==
  /\ uPc = "off"
  /\ \/ /\ uPc' = "shadow"
        /\ UNCHANGED uTried
     \/ \E accepted \in BOOLEAN :
          /\ uTried' = Append(uTried, <<"direct", accepted>>)
          /\ uPc' = afterMechanism("direct", accepted)
  /\ UNCHANGED <<runVars, waitVars, modeVars, procVars>>

\* The input inside the uploader's shadow root.
UploadShadow ==
  /\ uPc = "shadow"
  /\ \/ /\ uPc' = "hidden"
        /\ UNCHANGED uTried
     \/ \E accepted \in BOOLEAN :
          /\ uTried' = Append(uTried, <<"shadow", accepted>>)
          /\ uPc' = afterMechanism("shadow", accepted)
  /\ UNCHANGED <<runVars, waitVars, modeVars, procVars>>

\* The hidden upload button: forced click, file chooser, chooser.setFiles,
\* all inside one try block.
UploadHidden ==
  /\ uPc = "hidden"
  /\ \/ /\ uPc' = "button"
        /\ UNCHANGED uTried
     \/ \E accepted \in BOOLEAN :
          /\ uTried' = Append(uTried, <<"hidden-chooser", accepted>>)
          /\ uPc' = afterMechanism("hidden-chooser", accepted)
  /\ UNCHANGED <<runVars, waitVars, modeVars, procVars>>

\* waitForAnyVisible(this.page, uploadButtonCandidates, 5000) runs.
UploadWaits ==
  /\ uPc = "button"
  /\ NextWait

\* No upload button became visible: the timeout error leaves uploadImage.
UploadButtonTimedOut ==
  /\ uPc = "button"
  /\ wPc = "timedout"
  /\ uPc' = "raised"
  /\ UNCHANGED uTried
  /\ UNCHANGED <<runVars, waitVars, modeVars, procVars>>

\* The try block after the button was found: click, the menu item, its file
\* chooser, chooser.setFiles. Any of them raising leads to the catch.
UploadMenu ==
  /\ uPc = "button"
  /\ wPc = "returned"
  /\ \E accepted \in BOOLEAN :
       /\ uTried' = Append(uTried, <<"menu-chooser", accepted>>)
       /\ uPc' = IF accepted THEN "returned" ELSE "force"
  /\ UNCHANGED <<runVars, waitVars, modeVars, procVars>>

\* The catch: forced click on the button, file chooser, chooser.setFiles.
UploadForce ==
  /\ uPc = "force"
  /\ \E accepted \in BOOLEAN :
       /\ uTried' = Append(uTried, <<"button-chooser", accepted>>)
       /\ uPc' = IF accepted THEN "returned" ELSE "raised"
  /\ UNCHANGED <<runVars, waitVars, modeVars, procVars>>

InitUpload ==
  /\ RunQuiet
  /\ ModeQuiet
  /\ ProcQuiet
  /\ UploadQuiet
  /\ wCands \in [1..1 -> FastOptionKinds]
  /\ wTimeout = UPLOAD_BUTTON_TIMEOUT_MS
  /\ wNow = 0
  /\ wStart = 0
  /\ wPc = "off"
  /\ wI = 0
  /\ wResult = 0
  /\ wPassStart = 0
  /\ wProbes = <<>>

NextUpload ==
  \/ UploadDirect
  \/ UploadShadow
  \/ UploadHidden
  \/ UploadWaits
  \/ UploadButtonTimedOut
  \/ UploadMenu
  \/ UploadForce

SpecUpload == InitUpload /\ [][NextUpload]_vars


\* ------------------------------------------------- waitForProcessingComplete
\* loading.waitFor({ state: 'visible', timeout: 20000 })
INDICATOR_TIMEOUT_MS == 20000

\* Variant of indicatorCatch that lets the error of the indicator waits out.
indicatorCatchRethrows(raised) == IF raised THEN "raised" ELSE "poll"

\* try { waitFor visible; waitFor hidden } catch (err) { } : whether or not
\* one of the two waits raised, the download check comes next.
indicatorCatch(raised) == "poll"

\* How long after the call the indicator can show up, and how long it can
\* stay, when it does either in time.
IndicatorDelays == {0, Tick}

\* The try block about the loading indicator. wTimeout holds
\* config.processingTimeoutMs. The indicator never shows up and the first wait
\* raises after 20000 ms; or it shows up and goes away; or it shows up and
\* stays, and the second wait raises after processingTimeoutMs.
ProcIndicator ==
  /\ pPc = "off"
  /\ pStart' = wNow
  /\ \/ /\ pShown' = "never"
        /\ wNow' = wNow + INDICATOR_TIMEOUT_MS
        /\ pPc' = indicatorCatch(TRUE)
     \/ \E shows \in IndicatorDelays, stays \in IndicatorDelays :
          /\ pShown' = "hid"
          /\ wNow' = wNow + shows + stays
          /\ pPc' = indicatorCatch(FALSE)
     \/ \E shows \in IndicatorDelays :
          /\ pShown' = "stayed"
          /\ wNow' = wNow + shows + wTimeout
          /\ pPc' = indicatorCatch(TRUE)
  /\ UNCHANGED <<wCands, wTimeout, wStart, wPc, wI, wResult, wPassStart, wProbes>>
  /\ UNCHANGED <<runVars, modeVars, uploadVars>>

\* _waitForDownloadButtonWithHeartbeat runs: the loop of waitForAnyVisible
\* over downloadCandidates with config.processingTimeoutMs (its heartbeat
\* line goes to the console only).
ProcPolls ==
  /\ pPc = "poll"
  /\ NextWait

\* A download button was returned: 'Processing complete; download button visible.'
ProcReturns ==
  /\ pPc = "poll"
  /\ wPc = "returned"
  /\ pPc' = "returned"
  /\ UNCHANGED <<pStart, pShown>>
  /\ UNCHANGED <<runVars, waitVars, modeVars, uploadVars>>

\* 'Timeout waiting for download button.' leaves waitForProcessingComplete.
ProcTimedOut ==
  /\ pPc = "poll"
  /\ wPc = "timedout"
  /\ pPc' = "raised"
  /\ UNCHANGED <<pStart, pShown>>
  /\ UNCHANGED <<runVars, waitVars, modeVars, uploadVars>>

\* A positive processingTimeoutMs (a timeout of 0 switches the indicator
\* waits' timeout off).
InitProc ==
  /\ RunQuiet
  /\ ModeQuiet
  /\ UploadQuiet
  /\ ProcQuiet
  /\ wCands \in [1..2 -> CandidateKinds]
  /\ wTimeout \in {k * Tick : k \in 1..MaxTimeoutTicks}
  /\ wNow = 0
  /\ wStart = 0
  /\ wPc = "off"
  /\ wI = 0
  /\ wResult = 0
  /\ wPassStart = 0
  /\ wProbes = <<>>

NextProc ==
  \/ ProcIndicator
  \/ ProcPolls
  \/ ProcReturns
  \/ ProcTimedOut

SpecProc == InitProc /\ [][NextProc]_vars


\* ================================================================== claims
\* Identifiers the state file lists, when it holds arrays.
PersistedProcessed(file) ==
  IF file.kind = "value" /\ file.processedIsArray THEN Range(file.processed) ELSE {}
PersistedFailed(file) ==
  IF file.kind = "value" /\ file.failedIsArray THEN Range(file.failed) ELSE {}

\* Items for which an adapter operation was called in this run.
StagedItems == {calls[i].item : i \in 1..Len(calls)} \ {NoItem}

\* Number of operations that raised for the item in this run.
FaultsOf(item) == Cardinality({i \in 1..Len(faulted) : faulted[i][1] = item})

\* Items whose attempt number config.retries raised in this run.
ExhaustedItems ==
  {faulted[i][1] : i \in {j \in 1..Len(faulted) : faulted[j][2] >= retries}}

\* C1: idempotent resume. No adapter operation of a run is called for an
\* identifier that the persisted record listed as processed when the run
\* started, i.e. at the end of the previous run.
C1_IdempotentResume ==
  StagedItems \cap PersistedProcessed(recordAtStart) = {}

\* A second run that found processed identifiers in the record and still
\* drove another item through the pipeline.
C1_Witness ==
  /\ runNo = 2
  /\ pc = "done"
  /\ PersistedProcessed(recordAtStart) # {}
  /\ StagedItems # {}

\* C2: an item that exhausted its attempts in a run is in failed exactly once
\* and in processed zero times, in the working copy and in the record, also
\* when it was already in failed from an earlier run.
C2_FailedExactlyOnce ==
  \A item \in ExhaustedItems :
    /\ Count(state.failed, item) = 1
    /\ Count(state.processed, item) = 0
    /\ Count(stateFile.failed, item) = 1
    /\ Count(stateFile.processed, item) = 0

\* C3: processed and failed are disjoint in every reachable state, in the
\* working copy and in the record.
C3_Disjoint ==
  /\ Range(state.processed) \cap Range(state.failed) = {}
  /\ PersistedProcessed(stateFile) \cap PersistedFailed(stateFile) = {}

\* C4: the resume state only grows. Every step, the start of the next run
\* included, keeps every identifier of processed and of failed, in the
\* working copy and in the record.
C4_OnlyGrows ==
  [][/\ Range(state.processed) \subseteq Range(state'.processed)
     /\ Range(state.failed) \subseteq Range(state'.failed)
     /\ PersistedProcessed(stateFile) \subseteq PersistedProcessed(stateFile')
     /\ PersistedFailed(stateFile) \subseteq PersistedFailed(stateFile')]_vars

\* A second run whose working copy was loaded with identifiers in both lists.
C4_Witness ==
  /\ runNo = 2
  /\ pc = "launch"
  /\ state.processed # <<>>
  /\ state.failed # <<>>

\* C5: loadState never makes a run fail, whatever the state file holds.
C5_LoadStateNeverFails ==
  fatalAt # "loadState"

\* The destination computed for a download does not exist when it is
\* computed and is the first candidate, in the order unnumbered, _2, _3, ...,
\* that does not exist; and no step replaces or removes an existing output.
C6_FreshPath ==
  (pc = "stage" /\ currentStep = "download") =>
    /\ outputPath \notin DOMAIN outputFiles
    /\ \E k \in 1..(Cardinality(DOMAIN outputFiles) + 1) :
         /\ outputPath = OutputCandidate(limited[idx], k)
         /\ \A j \in 1..(k - 1) : OutputCandidate(limited[idx], j) \in DOMAIN outputFiles

C6_NoOverwrite ==
  [][\A p \in DOMAIN outputFiles :
       p \in DOMAIN outputFiles' /\ outputFiles'[p] = outputFiles[p]]_vars

\* C6: every destination buildOutputPath computes is fresh and the first free
\* candidate, and no existing output file is ever overwritten.
C6_OutputPathIsFresh == []C6_FreshPath /\ C6_NoOverwrite

\* In the second run a.jpg is assigned a_upscaled_2.jpg because the first run
\* left a_upscaled.jpg.
C6_Witness ==
  /\ runNo = 2
  /\ pc = "stage"
  /\ currentStep = "download"
  /\ limited[idx] = PathJoin(InputDirPath, a_jpg)
  /\ outputPath = OutputCandidate(limited[idx], 2)
  /\ OutputCandidate(limited[idx], 1) \in DOMAIN outputFiles

\* Items of the work list for which every attempt of this run raised.
FailedAllAttempts ==
  {item \in Range(limited) : FaultsOf(item) = retries /\ item \notin downloaded}

\* Lines this run appended to the log.
RunLog == SubSeq(logFile, logAtStart + 1, Len(logFile))

LinesOf(kind, name) ==
  Cardinality({i \in 1..Len(RunLog) : RunLog[i].kind = kind /\ RunLog[i].name = name})

\* Identifiers this run appended to a list of the working copy.
AddedTo(now, before) == SubSeq(now, Len(before) + 1, Len(now))

\* C9: end-to-end accounting of a completed run. The identifiers added to
\* processed are the items whose download returned, each once; those added
\* to failed are the items whose every attempt raised, each once; the record
\* equals the working copy; the last line is the one summary line, with both
\* counts; there is one SUCCESS line per succeeded item and one ERROR line
\* per raised attempt.
C9_Accounting ==
  (pc = "done" /\ ~nothingToDo /\ runNo >= 1) =>
    LET loaded == loadState(recordAtStart)
        newProcessed == AddedTo(state.processed, loaded.processed)
        newFailed == AddedTo(state.failed, loaded.failed)
    IN /\ \A item \in Range(limited) : item \in downloaded \/ item \in FailedAllAttempts
       /\ Range(newProcessed) = downloaded
       /\ Len(newProcessed) = Cardinality(downloaded)
       /\ Range(newFailed) = FailedAllAttempts
       /\ Len(newFailed) = Cardinality(FailedAllAttempts)
       /\ stateFile = saveState(state)
       /\ successCount = Cardinality(downloaded)
       /\ failureCount = Cardinality(FailedAllAttempts)
       /\ RunLog # <<>>
       /\ RunLog[Len(RunLog)] = SummaryLine(successCount, failureCount)
       /\ Cardinality({i \in 1..Len(RunLog) : RunLog[i].kind = "SUMMARY"}) = 1
       /\ \A item \in Range(limited) :
            /\ LinesOf("SUCCESS", BaseName(item)) = IF item \in downloaded THEN 1 ELSE 0
            /\ LinesOf("ERROR", BaseName(item)) = FaultsOf(item)
            /\ item \in FailedAllAttempts => LinesOf("ERROR", BaseName(item)) = retries
       /\ Len(RunLog) = 1 + Cardinality(downloaded) + Len(faulted)

\* One item succeeded at once and another failed both of its two attempts.
C9_Witness ==
  /\ pc = "done"
  /\ retries = 2
  /\ \E x \in downloaded : FaultsOf(x) = 0
  /\ Cardinality(downloaded) = 1
  /\ Cardinality(FailedAllAttempts) = 1
  /\ successCount = 1
  /\ failureCount = 1

\* C10: a run whose work list is empty reports nothing-to-do and ends with
\* no browser or adapter call, the record and the log untouched, exit code 0.
C10_NothingToDo ==
  (runNo >= 1 /\ fatalAt # "loadState" /\ Len(limited) = 0) =>
    /\ nothingToDo
    /\ pc = "done"
    /\ calls = <<>>
    /\ stateFile = recordAtStart
    /\ Len(logFile) = logAtStart
    /\ exitCode = 0

\* A second run that has images in the input directory, all of them processed.
C10_Witness ==
  /\ runNo = 2
  /\ nothingToDo
  /\ listImages(inputDir) # <<>>
  /\ PersistedProcessed(recordAtStart) # {}
  /\ calls = <<>>


\* ---------------------------------------------------- wait primitive claims
\* Probes of candidate i made so far.
ProbesOf(i) == {k \in 1..Len(wProbes) : wProbes[k][1] = i}

\* Time since the call.
Elapsed == wNow - wStart

\* The case of C7: candidates [X, Y], X never usable (no element, or its
\* probe raises), Y usable from t after the call on, 0 <= t < timeout.
C7_Case ==
  /\ wPc # "off"
  /\ Len(wCands) = 2
  /\ wCands[1].usableAt = Never \/ wCands[1].throws
  /\ ~wCands[2].throws
  /\ wCands[2].usableAt # Never
  /\ wCands[2].usableAt - wStart >= 0
  /\ wCands[2].usableAt - wStart < wTimeout

\* C7 as stated: in that case the call does not time out and returns Y.
C7_ReturnsY ==
  C7_Case => /\ wPc # "timedout"
             /\ wPc = "returned" => wResult = 2

\* C7, amended: in that case X is never returned, a returned handle is Y's
\* and Y was usable when probed; the call times out only when every probe of
\* Y was made before Y became usable, and not before the first pass.
C7_ReturnsYWhenPolled ==
  C7_Case =>
    /\ wResult # 1
    /\ wPc = "returned" =>
         /\ wResult = 2
         /\ wProbes[Len(wProbes)] = <<2, wProbes[Len(wProbes)][2], TRUE>>
         /\ wProbes[Len(wProbes)][2] >= wCands[2].usableAt
    /\ wPc = "timedout" =>
         /\ ProbesOf(2) # {}
         /\ \A k \in ProbesOf(2) : wProbes[k][2] < wCands[2].usableAt

\* Y became usable after the first pass and a later pass returned it.
C7_Witness ==
  /\ C7_Case
  /\ wPc = "returned"
  /\ wResult = 2
  /\ wCands[2].usableAt > wStart
  /\ Cardinality(ProbesOf(2)) >= 2

\* The case of C8: no candidate has been usable at any instant of the call
\* so far (no element yet, or its probe raises).
C8_Case ==
  /\ wPc # "off"
  /\ \A i \in 1..Len(wCands) :
       \/ wCands[i].throws
       \/ wCands[i].usableAt = Never
       \/ wCands[i].usableAt > wNow

\* C8 as stated: in that case no handle is returned, and the timeout error
\* is raised at least timeout and less than timeout + poll interval after
\* the call.
C8_TimedOutWithinPoll ==
  C8_Case =>
    /\ wPc # "returned"
    /\ wPc = "timedout" =>
         /\ Elapsed >= wTimeout
         /\ Elapsed < wTimeout + DEFAULT_POLL_MS

\* C8, amended: in that case no handle is returned, and the timeout error is
\* raised at least timeout after the call: with timeout 0 at once and without
\* a probe; otherwise at the end of a pass that began before the timeout, a
\* pass lasting its probes plus a sleep of at least the poll interval.
C8_TimedOutAfterLastPass ==
  C8_Case =>
    /\ wPc # "returned"
    /\ wPc = "timedout" =>
         /\ Elapsed >= wTimeout
         /\ wTimeout = 0 => (Elapsed = 0 /\ wProbes = <<>>)
         /\ wTimeout > 0 =>
              /\ wPassStart - wStart < wTimeout
              /\ wNow - wPassStart >= DEFAULT_POLL_MS
              /\ wNow - wPassStart <= DEFAULT_POLL_MS + Tick * (Len(wCands) + 1)

\* A timeout that is not a multiple of the poll interval elapsed with no
\* candidate usable, and the error was raised.
C8_Witness ==
  /\ C8_Case
  /\ wPc = "timedout"
  /\ wTimeout > 0
  /\ wTimeout % DEFAULT_POLL_MS # 0
  /\ Len(wProbes) >= 4


\* ------------------------------------------------ claims C11 to C20
\* Items of the work list whose terminal outcome the loop has already reached
\* in this run: the items before the one in flight.
CompletedEarlier == {limited[j] : j \in 1..(idx - 1)}

C12_Persisted(st, file) ==
  /\ file.kind = "value"
  /\ file.processedIsArray /\ file.processed = st.processed
  /\ file.failedIsArray /\ file.failed = st.failed

\* What a step of a run in progress does to the working copy and the record.
C12_Step ==
  pc \in {"launch", "login", "loop", "stage"} =>
    IF downloaded' # downloaded
      THEN /\ currentStep = "download"
           /\ state' = [state EXCEPT !.processed = Append(@, limited[idx])]
           /\ C12_Persisted(state', stateFile')
      ELSE IF Len(faulted') > Len(faulted) /\ attempt >= retries
        THEN /\ state' = [state EXCEPT !.failed = Append(@, limited[idx])]
             /\ C12_Persisted(state', stateFile')
        ELSE /\ state' = state
             /\ stateFile' = stateFile

\* C12: the resume state changes only on a terminal outcome. A step of a run
\* in progress whose download returned appends the item to processed; a step
\* in which attempt number config.retries raised appends it to failed; both
\* write the working copy to the record. Every other step (a stage returning,
\* a non-final attempt raising and its backoff sleep, login, launch, the
\* summary) leaves the working copy and the record as they were.
C12_MutatedOnlyOnTerminalOutcome == [][C12_Step]_vars

\* After a first attempt that raised at a late stage and slept: nothing was
\* recorded yet.
C12_Witness ==
  /\ pc = "loop"
  /\ lastSleep > 0
  /\ Len(faulted) = 1 /\ faulted[1][3] = "processing"
  /\ state = loadState(recordAtStart)
  /\ stateFile = recordAtStart

\* C13: a failed item does not end the batch. Once an item of the run was
\* recorded in failed, run() is not rejected and the exit status stays zero;
\* between attempts the loop can always go on (a further attempt of the item
\* in flight, the next item, or the summary); and when the run is done every
\* item of the work list was driven through the pipeline, the summary line is
\* the last line of the log and the browser context was closed.
C13_FailureNonFatal ==
  failureCount > 0 =>
    /\ pc \in {"loop", "stage", "done"}
    /\ exitCode = 0
    /\ fatalAt = ""
    /\ (pc = "loop" /\ idx <= Len(limited)) => attempt < retries
    /\ pc = "done" =>
         /\ Range(limited) \subseteq StagedItems
         /\ RunLog[Len(RunLog)] = SummaryLine(successCount, failureCount)
         /\ calls[Len(calls)] = Call("close", NoItem)

\* A completed run whose first item ended in failed and whose second item
\* was processed afterwards.
C13_Witness ==
  /\ pc = "done"
  /\ exitCode = 0
  /\ Len(limited) = 2
  /\ Includes(AddedTo(state.failed, loadState(recordAtStart).failed), limited[1])
  /\ limited[2] \in downloaded

\* Number of images enumerated before position i that the record did not
\* list as processed when the run started.
C14_UnprocessedBefore(i) ==
  Cardinality({j \in 1..(i - 1) :
                 listImages(inputDir)[j] \notin PersistedProcessed(recordAtStart)})

\* C14: asymmetric resume. An image that the record listed in failed and not
\* in processed when the run started is in the work list whenever the limit
\* leaves room for it (the rule for a never-seen image), and a completed run
\* has driven it to a terminal outcome with the full attempt budget. An image
\* the record listed in processed is not in the work list and no operation is
\* called for it.
C14_FailedRetriedProcessedSkipped ==
  (runNo >= 1 /\ fatalAt # "loadState") =>
    \A i \in 1..Len(listImages(inputDir)) :
      LET item == listImages(inputDir)[i] IN
        /\ (item \in PersistedFailed(recordAtStart)
              /\ item \notin PersistedProcessed(recordAtStart)) =>
             /\ (limit = 0 \/ C14_UnprocessedBefore(i) < limit) => Includes(limited, item)
             /\ (pc = "done" /\ Includes(limited, item)) =>
                  /\ calls[3] = Call("ensure-ready", limited[1])
                  /\ item \in StagedItems
                  /\ item \in downloaded \/ FaultsOf(item) = retries
        /\ item \in PersistedProcessed(recordAtStart) =>
             /\ ~Includes(limited, item)
             /\ item \notin StagedItems

\* A second run that processed an image the first run had recorded in failed.
C14_Witness ==
  /\ runNo = 2
  /\ pc = "done"
  /\ \E item \in PersistedFailed(recordAtStart) : item \in downloaded

\* The adapter operations called for an item in this run, in call order.
C15_ItemCalls == SelectSeq(calls, LAMBDA c : c.item # NoItem)

C15_Position(item) == CHOOSE i \in 1..Len(limited) : limited[i] = item

\* C15: serial, ordered processing. The work list is in ascending order of
\* the file names (by code units); the operations called so far name the items
\* in work-list order, each item's operations in one block; every item before
\* the one in flight has reached its terminal outcome, the one in flight has
\* not, and no operation was called for any item after it.
C15_SerialInOrder ==
  /\ \A i, j \in 1..Len(limited) :
       i < j => StrLess(BaseName(limited[i]), BaseName(limited[j]))
  /\ \A k \in 1..Len(C15_ItemCalls) :
       /\ Includes(limited, C15_ItemCalls[k].item)
       /\ k > 1 => C15_Position(C15_ItemCalls[k - 1].item) <= C15_Position(C15_ItemCalls[k].item)
  /\ \A i \in 1..Len(limited) :
       /\ i < idx => limited[i] \in downloaded \cup ExhaustedItems
       /\ i >= idx => limited[i] \notin downloaded \cup ExhaustedItems
       /\ i > idx => limited[i] \notin StagedItems
  /\ pc = "stage" => calls[Len(calls)].item = limited[idx]

\* The second of two items is in flight after the first, B.JPG, took two
\* attempts.
C15_Witness ==
  /\ pc = "stage"
  /\ idx = 2
  /\ currentStep = "send"
  /\ limited = <<PathJoin(InputDirPath, B_JPG), PathJoin(InputDirPath, a_jpg)>>
  /\ FaultsOf(limited[1]) = 1

\* Positions of the call history at which the named operation was called.
C16_CallsOf(op) == {k \in 1..Len(calls) : calls[k].op = op}

\* C16: the login gate is passed once per session. A run with an empty work
\* list calls nothing; in any other run the browser session is opened first,
\* ensureLoggedIn is the second call and the only call of that operation, and
\* every call for an item comes after it, however many items and attempts
\* follow.
C16_LoginOncePerSession ==
  /\ nothingToDo => calls = <<>>
  /\ Len(calls) > 0 =>
       /\ C16_CallsOf("launchPersistentContext") = {1}
       /\ Len(calls) >= 2
       /\ C16_CallsOf("ensureLoggedIn") = {2}
  /\ pc \in {"loop", "stage"} => Len(calls) >= 2
  /\ (pc = "done" /\ ~nothingToDo) => Len(calls) >= 2
  /\ pc = "login" => Len(calls) = 2

\* A completed run of two items and three attempts.
C16_Witness ==
  /\ pc = "done"
  /\ Len(limited) = 2
  /\ Cardinality(C16_CallsOf("ensure-ready")) = 3
  /\ Cardinality(C16_CallsOf("ensureLoggedIn")) = 1

\* C17: the limit bounds the work after the resume filter. With a limit
\* configured, the work list holds at most limit images, in enumeration order:
\* exactly the images the record did not list as processed at the start of the
\* run that have fewer than limit such images before them; and operations are
\* called for images of the work list only.
C17_LimitAfterFilter ==
  (runNo >= 1 /\ fatalAt # "loadState" /\ limit # 0) =>
    /\ Len(limited) <= limit
    /\ StagedItems \subseteq Range(limited)
    /\ Cardinality(StagedItems) <= limit
    /\ \A i, j \in 1..Len(limited) :
         i < j => StrLess(BaseName(limited[i]), BaseName(limited[j]))
    /\ \A i \in 1..Len(listImages(inputDir)) :
         Includes(limited, listImages(inputDir)[i]) <=>
           /\ listImages(inputDir)[i] \notin PersistedProcessed(recordAtStart)
           /\ C14_UnprocessedBefore(i) < limit

\* With limit 1 and B.JPG recorded as processed by the first run, the second
\* run works on a.jpg.
C17_Witness ==
  /\ runNo = 2
  /\ limit = 1
  /\ pc = "done"
  /\ PersistedProcessed(recordAtStart) = {PathJoin(InputDirPath, B_JPG)}
  /\ limited = <<PathJoin(InputDirPath, a_jpg)>>
  /\ limited[1] \in downloaded

\* Number of attempts started for the item in this run.
C18_AttemptsOf(item) ==
  Cardinality({k \in 1..Len(calls) : calls[k] = Call("ensure-ready", item)})

\* The backoff after a failed attempt that is not the last one, in ms.
C18_Backoff(att) ==
  CASE att = 1 -> 30000 [] att = 2 -> 60000 [] att = 3 -> 120000 [] OTHER -> 0 - 1

\* The state between attempts and the step that follows a backoff sleep.
C18_Sleeps ==
  /\ attempt <= retries
  /\ \A item \in Range(limited) : C18_AttemptsOf(item) <= retries
  /\ lastSleep # 0 =>
       /\ pc = "loop"
       /\ attempt >= 1 /\ attempt < retries
       /\ faulted[Len(faulted)][1] = limited[idx]
       /\ faulted[Len(faulted)][2] = attempt
       /\ lastSleep = C18_Backoff(attempt)
  /\ (pc = "loop" /\ idx <= Len(limited) /\ attempt >= 1) => lastSleep = C18_Backoff(attempt)
  /\ (pc = "loop" /\ attempt = 0) => lastSleep = 0

C18_Restart ==
  lastSleep # 0 =>
    /\ idx' = idx
    /\ attempt' = attempt + 1
    /\ pc' = "stage"
    /\ currentStep' = "ensure-ready"
    /\ calls' = Append(calls, Call("ensure-ready", limited[idx]))

C19_Pipeline ==
  <<"ensure-ready", "select-fast", "upload", "prompt", "send", "processing", "download">>

\* The call history and the attempt in flight.
C19_Calls ==
  /\ \A k \in 1..Len(calls) :
       calls[k].item # NoItem =>
         \E n \in 1..Len(C19_Pipeline) :
           /\ calls[k].op = C19_Pipeline[n]
           /\ n > 1 => calls[k - 1] = Call(C19_Pipeline[n - 1], calls[k].item)
  /\ pc = "stage" =>
       /\ calls[Len(calls)] = Call(currentStep, limited[idx])
       /\ \A f \in 1..Len(faulted) : ~(faulted[f][1] = limited[idx] /\ faulted[f][2] = attempt)
  /\ \A item \in Range(AddedTo(state.processed, loadState(recordAtStart).processed)) :
       /\ item \in downloaded
       /\ \E k \in 1..Len(calls) : calls[k] = Call("download", item)

\* What a raising stage, the step after it, and a step that adds to
\* processed do.
C19_Step ==
  /\ Len(faulted') > Len(faulted) =>
       /\ calls' = calls
       /\ pc' = "loop"
       /\ faulted'[Len(faulted')] = <<limited[idx], attempt, calls[Len(calls)].op>>
  /\ (pc = "loop" /\ calls' # calls) =>
       IF idx <= Len(limited)
         THEN calls' = Append(calls, Call("ensure-ready", limited[idx]))
         ELSE calls' = Append(calls, Call("close", NoItem))
  /\ (pc \in {"loop", "stage"} /\ state'.processed # state.processed) =>
       /\ pc = "stage"
       /\ calls[Len(calls)] = Call("download", limited[idx])
       /\ downloaded' = downloaded \cup {limited[idx]}

\* C19: the stage protocol of one attempt. The operations of an attempt are
\* called in the order ensure-ready, select-fast, upload, prompt, send,
\* processing, download, each only directly after the one before it returned
\* in the same attempt; an item is added to processed only by the step in
\* which download returned; and after a stage raised no further stage of
\* that attempt is called: the next call starts an attempt or closes the
\* session.
C19_StageProtocol == [](C19_Calls) /\ [][C19_Step]_vars

\* An item was processed in its second attempt, after the first raised at
\* the prompt stage.
C19_Witness ==
  /\ pc = "loop"
  /\ idx = 2
  /\ limited[1] \in downloaded
  /\ faulted = <<<<limited[1], 1, "prompt">>>>

\* C20: the mode stage is best-effort about the selector and strict about the
\* confirmation. A call of selectFastMode that found no mode button returns;
\* a call that clicked a mode button, whose wait for the Fast option timed
\* out and that saw no Fast button afterwards, raises.
C20_BestEffortButStrict ==
  mPc \in {"returned", "raised"} =>
    /\ mButton = 0 => mPc = "returned"
    /\ (mClicked /\ wPc = "timedout" /\ mConfirmed = "no") => mPc = "raised"

\* ------------------------------------------------ claims C21 to C27
\* The mechanisms of the claim, in its order; the file chooser is reached by
\* the hidden button, by the upload menu or by a forced click on the button.
C21_Rank(mechanism) ==
  CASE mechanism = "direct" -> 1 [] mechanism = "shadow" -> 2 [] OTHER -> 3

\* C21: uploadImage tries direct input, shadow input and file chooser in that
\* order and returns on the first that accepts the file; a mechanism that is
\* present and rejects the file is followed by the next one, so the call
\* raises only after a file chooser, the last mechanism, was tried or could
\* not be reached.
C21_FallsBackOnRejection ==
  /\ \A j, k \in 1..Len(uTried) : j < k => C21_Rank(uTried[j][1]) <= C21_Rank(uTried[k][1])
  /\ uPc = "returned" => (uTried # <<>> /\ uTried[Len(uTried)][2])
  /\ \A k \in 1..Len(uTried) : uTried[k][2] => k = Len(uTried)
  /\ uPc = "raised" =>
       \A k \in 1..Len(uTried) :
         (C21_Rank(uTried[k][1]) < 3 /\ ~uTried[k][2]) => k < Len(uTried)

\* C22 as stated: waitForProcessingComplete ends by returning with a download
\* button visible or by raising the timeout, whatever the indicator did, at
\* most processingTimeoutMs plus one poll interval after it was called.
C22_WithinProcessingTimeout ==
  pPc \in {"returned", "raised"} =>
    /\ (pPc = "returned") = (wPc = "returned")
    /\ (pPc = "raised") = (wPc = "timedout")
    /\ wNow - pStart <= wTimeout + DEFAULT_POLL_MS

\* C22, amended: the indicator never showing up, or showing up and staying,
\* is no error; the call ends by returning with a download button probed
\* visible or by raising the polling timeout. The polling starts its last pass
\* less than processingTimeoutMs after it began and ends at most one pass (its
\* probes and one poll sleep) later. Before the polling, the indicator phase
\* lasts 20000 ms when the indicator never shows up and up to
\* processingTimeoutMs after it showed up.
C22_BoundedPolling ==
  /\ pPc = "raised" => wPc = "timedout"
  /\ pPc \in {"returned", "raised"} =>
       /\ pShown \in {"never", "hid", "stayed"}
       /\ (pPc = "returned") = (wPc = "returned")
       /\ pPc = "returned" => wProbes[Len(wProbes)][3]
       /\ pShown = "never" => wStart - pStart = INDICATOR_TIMEOUT_MS
       /\ pShown = "hid" => wStart - pStart <= 2 * Tick
       /\ pShown = "stayed" =>
            (wStart - pStart >= wTimeout /\ wStart - pStart <= wTimeout + Tick)
       /\ wPassStart - wStart < wTimeout
       /\ pPc = "raised" =>
            /\ wNow - wStart >= wTimeout
            /\ wNow - wPassStart <= DEFAULT_POLL_MS + Tick * (Len(wCands) + 1)

\* The indicator never showed up, and the polling returned the second
\* download candidate 20000 ms after the call.
C22_Witness ==
  /\ pPc = "returned"
  /\ pShown = "never"
  /\ wResult = 2
  /\ wNow - pStart >= INDICATOR_TIMEOUT_MS

\* The indicator stayed, no download button showed up, and the call raised
\* more than twice the processing timeout after it began.
C22_WitnessRaised ==
  /\ pPc = "raised"
  /\ pShown = "stayed"
  /\ wNow - pStart > 2 * wTimeout

\* A step in which the download of the attempt in flight wrote a zero-byte
\* file to its destination.
C23_EmptyPayload ==
  /\ pc = "stage"
  /\ currentStep = "download"
  /\ outputPath \notin DOMAIN outputFiles
  /\ outputPath \in DOMAIN outputFiles'
  /\ outputFiles'[outputPath] = "empty"

C23_Step ==
  C23_EmptyPayload =>
    /\ state'.processed = state.processed
    /\ downloaded' = downloaded
    /\ successCount' = successCount
    /\ Len(logFile') = Len(logFile) + 1
    /\ logFile'[Len(logFile')].kind = "ERROR"
    /\ logFile'[Len(logFile')].name = BaseName(limited[idx])
    /\ logFile'[Len(logFile')].attempt = attempt
    /\ logFile'[Len(logFile')].step = "download"
    /\ pc' = "loop"
    /\ IF attempt < retries
         THEN /\ lastSleep' = C18_Backoff(attempt)
              /\ idx' = idx /\ attempt' = attempt
              /\ state' = state /\ stateFile' = stateFile
         ELSE /\ lastSleep' = 0
              /\ idx' = idx + 1
              /\ state'.failed = Append(state.failed, limited[idx])
              /\ C12_Persisted(state', stateFile')

\* C23: a zero-byte download is a stage fault. The step in which downloadImage
\* wrote an empty file does not add the item to processed, appends one ERROR
\* line naming the item, the attempt and step=download, and follows the retry
\* policy: backoff and another attempt of the item, or, at attempt number
\* config.retries, the item is added to failed and saved.
C23_EmptyDownloadIsFault == [][C23_Step]_vars

\* An empty download in a first attempt was followed by the backoff.
C23_Witness ==
  /\ pc = "loop"
  /\ lastSleep > 0
  /\ faulted[Len(faulted)] = <<limited[idx], 1, "download">>
  /\ \E p \in DOMAIN outputFiles : outputFiles[p] = "empty"
  /\ limited[idx] \notin downloaded

\* C24: priority order of waitForAnyVisible. The probes go through the
\* candidates in list order, pass after pass; a probe of a candidate whose
\* isVisible raises says false and the wait goes on; the first probe that says
\* true ends the call, which returns that candidate's handle, so no candidate
\* is returned on a pass in which an earlier one was probed usable.
C24_PriorityOrder ==
  /\ wPc \in {"off", "head", "probe", "sleep", "returned", "timedout"}
  /\ \A k \in 1..Len(wProbes) :
       /\ wProbes[k][1] \in 1..Len(wCands)
       /\ wCands[wProbes[k][1]].throws => ~wProbes[k][3]
       /\ wCands[wProbes[k][1]].usableAt = Never => ~wProbes[k][3]
       /\ k = 1 => wProbes[k][1] = 1
       /\ k > 1 =>
            /\ ~wProbes[k - 1][3]
            /\ wProbes[k][1] = IF wProbes[k - 1][1] < Len(wCands) THEN wProbes[k - 1][1] + 1 ELSE 1
       /\ wProbes[k][3] => (wPc = "returned" /\ wResult = wProbes[k][1])
  /\ wPc = "returned" =>
       /\ wProbes # <<>>
       /\ wProbes[Len(wProbes)][3]
       /\ wResult = wProbes[Len(wProbes)][1]
       /\ \A j \in 1..(wResult - 1) :
            /\ Len(wProbes) - j >= 1
            /\ wProbes[Len(wProbes) - j] = <<wResult - j, wProbes[Len(wProbes) - j][2], FALSE>>
  /\ wPc = "timedout" => \A k \in 1..Len(wProbes) : ~wProbes[k][3]

\* The first candidate has its element from the start but its probe raises;
\* the second was returned once it was visible, after a whole pass of misses.
C24_Witness ==
  /\ wPc = "returned"
  /\ wCands[1] = Candidate(0, TRUE)
  /\ wResult = 2
  /\ Len(wProbes) = 4

\* The ERROR lines this run appended to the log, in order.
C25_ErrorLines == SelectSeq(RunLog, LAMBDA line : line.kind = "ERROR")

\* Each attempt that raised has its ERROR line.
C25_Lines ==
  /\ Len(C25_ErrorLines) = Len(faulted)
  /\ \A k \in 1..Len(faulted) :
       /\ C25_ErrorLines[k].name = BaseName(faulted[k][1])
       /\ C25_ErrorLines[k].attempt = faulted[k][2]
       /\ C25_ErrorLines[k].step = faulted[k][3]
       /\ C25_ErrorLines[k].step \in Range(C19_Pipeline)
       /\ \A j \in 1..Len(faulted) :
            (faulted[j][1] = faulted[k][1] /\ faulted[j][2] = faulted[k][2]) => j = k

\* The step in which an operation raises appends the line that names the
\* operation called last.
C25_Step ==
  Len(faulted') > Len(faulted) =>
    /\ faulted' = Append(faulted, <<limited[idx], attempt, calls[Len(calls)].op>>)
    /\ Len(logFile') = Len(logFile) + 1
    /\ logFile'[Len(logFile')].kind = "ERROR"
    /\ logFile'[Len(logFile')].name = BaseName(limited[idx])
    /\ logFile'[Len(logFile')].attempt = attempt
    /\ logFile'[Len(logFile')].step = calls[Len(calls)].op

\* C25: every failed attempt writes exactly one ERROR line that names the
\* item, the attempt number and the stage that faulted: the lines of a run
\* match its failed attempts one to one and in order, no attempt of an item
\* fails twice, and the step of a line is the label of the operation that was
\* called last when the attempt raised, one of the seven stage labels.
C25_ErrorLinePerFailedAttempt == [](C25_Lines) /\ [][C25_Step]_vars

\* Two attempts of one item failed at different stages.
C25_Witness ==
  /\ Len(faulted) = 2
  /\ faulted[1] = <<limited[1], 1, "select-fast">>
  /\ faulted[2] = <<limited[1], 2, "processing">>
  /\ Len(C25_ErrorLines) = 2

\* The terminal outcomes of a run: once an item raised the run is never
\* rejected, an item is attempted config.retries times at most, and when the
\* run is done each item of the work list was added once to processed and not
\* to failed, or once to failed, after config.retries attempts, and not to
\* processed.
C26_Outcomes ==
  /\ Len(faulted) > 0 => pc # "fatal"
  /\ \A item \in Range(limited) : C18_AttemptsOf(item) <= retries
  /\ (pc = "done" /\ ~nothingToDo) =>
       \A item \in Range(limited) :
         LET ok == Count(AddedTo(state.processed, loadState(recordAtStart).processed), item)
             bad == Count(AddedTo(state.failed, loadState(recordAtStart).failed), item)
         IN \/ ok = 1 /\ bad = 0 /\ item \in downloaded
            \/ ok = 0 /\ bad = 1 /\ C18_AttemptsOf(item) = retries /\ FaultsOf(item) = retries

\* C26: termination. When every awaited call returns or raises, a run that
\* was started ends (done, or rejected before the first item by the login
\* gate), with each item of the work list at exactly one terminal outcome;
\* a stage that raises, its timeout included, is handled by the retry policy.
C26_Terminates ==
  /\ [](C26_Outcomes)
  /\ (pc \in {"launch", "login", "loop", "stage"}) ~> (pc \in {"done", "fatal"})

\* A run of two-attempt items is done: the first item failed twice and is in
\* failed, the second was processed.
C26_Witness ==
  /\ pc = "done"
  /\ retries = 2
  /\ Len(limited) = 2
  /\ FaultsOf(limited[1]) = 2
  /\ Includes(state.failed, limited[1])
  /\ limited[2] \in downloaded

\* C27: no identifier is listed twice in processed, in the working copy and
\* in the state file, also after a state write or a SUCCESS log write raised.
C27_NoDuplicateProcessed ==
  /\ \A item \in Range(state.processed) : Count(state.processed, item) = 1
  /\ stateFile.kind = "value" =>
       \A item \in Range(stateFile.processed) : Count(stateFile.processed, item) = 1
====
